---------------------------- MODULE Spec2Model ----------------------------
(***************************************************************************)
(* A model of the sharded concurrent hash map of src/map.go.               *)
(*                                                                         *)
(* A ConcurrentHashMap is a slice of shards and a routing mask.  Each      *)
(* shard is a sync.RWMutex and a Go map.  Every public operation is        *)
(* modelled statement by statement as steps of a calling goroutine, so     *)
(* that goroutines interleave exactly where the Go scheduler may           *)
(* interleave them: between lock operations and map accesses.              *)
(***************************************************************************)
EXTENDS Integers, Sequences, FiniteSets, Bags, TLC

(***************************************************************************)
(* Bounds of the model.                                                    *)
(***************************************************************************)
MaxKey == 1          \* keys are the ints 0..MaxKey
MaxVal == 2          \* values are the ints 1..MaxVal
MaxShards == 2       \* maps are built with 1..MaxShards shards
NumThreads == 2      \* goroutines calling single-key operations concurrently
MaxNewCount == 4     \* largest shardCount handed to the constructor alone
NumOps == 2          \* numOps of TestConcurrentOperations

Keys == 0 .. MaxKey
Vals == 1 .. MaxVal

(***************************************************************************)
(* uint32 arithmetic.  A uint32 is kept as two 16-bit halves so that no    *)
(* intermediate product leaves the range of the checker's integers; the    *)
(* results are the results of Go's wrapping 32-bit arithmetic.             *)
(***************************************************************************)
Half == 65536

U32(hi, lo) == [hi |-> hi, lo |-> lo]

\* uint32(n) for an int n >= 0: the low 32 bits
ToUint32(n) == U32((n \div Half) % Half, n % Half)

\* u - 1 on uint32, wrapping below zero
Dec32(u) ==
    IF u.lo > 0 THEN U32(u.hi, u.lo - 1)
    ELSE IF u.hi > 0 THEN U32(u.hi - 1, Half - 1)
    ELSE U32(Half - 1, Half - 1)

RECURSIVE BitAnd(_, _)
BitAnd(a, b) ==
    IF a = 0 \/ b = 0 THEN 0
    ELSE (a % 2) * (b % 2) + 2 * BitAnd(a \div 2, b \div 2)

RECURSIVE BitXor(_, _)
BitXor(a, b) ==
    IF a = 0 THEN b
    ELSE IF b = 0 THEN a
    ELSE ((a + b) % 2) + 2 * BitXor(a \div 2, b \div 2)

And32(a, b) == U32(BitAnd(a.hi, b.hi), BitAnd(a.lo, b.lo))

\* hash/fnv: offset32 = 2166136261 = 0x811C9DC5, prime32 = 16777619 = 0x01000193
offset32Hi == 33052
offset32Lo == 40389
prime32Hi == 256
prime32Lo == 403

\* hash *= prime32 (mod 2^32)
MulPrime32(h) ==
    LET p0 == h.lo * prime32Lo
        mid == h.hi * prime32Lo + h.lo * prime32Hi + (p0 \div Half)
    IN  U32(mid % Half, p0 % Half)

\* one step of fnv's sum32a.Write: hash ^= uint32(c); hash *= prime32
FnvStep(h, c) == MulPrime32(U32(h.hi, BitXor(h.lo, c)))

RECURSIVE FnvWrite(_, _)
FnvWrite(h, bytes) ==
    IF bytes = << >> THEN h
    ELSE FnvWrite(FnvStep(h, Head(bytes)), Tail(bytes))

\* fnv.New32a(); h.Write(bytes); h.Sum32()
Sum32(bytes) == FnvWrite(U32(offset32Hi, offset32Lo), bytes)

(***************************************************************************)
(* fmt.Sprintf("%v", reflect.ValueOf(key)) for an int key: the decimal     *)
(* digits, with a leading '-' for a negative key, as ASCII bytes.          *)
(***************************************************************************)
AsciiZero == 48
AsciiMinus == 45

RECURSIVE Digits(_)
Digits(n) ==
    IF n < 10 THEN << AsciiZero + n >>
    ELSE Append(Digits(n \div 10), AsciiZero + (n % 10))

\* the int keys the model hashes once
HashedKeys == 0 .. (MaxKey + NumOps)

\* A float64 key of integral magnitude is kept as a code above the int keys:
\* its magnitude and its sign bit.  +0 and -0 are two codes.
FloatBase == MaxKey + NumOps + 1
F64(neg, mag) == FloatBase + 2 * mag + neg
IsFloat(key) == key >= FloatBase
Magnitude(key) == (key - FloatBase) \div 2
SignBit(key) == (key - FloatBase) % 2
PosZero == F64(0, 0)
NegZero == F64(1, 0)

\* Go's == on keys, the equality of the shard's map[K]V: ints are equal when
\* they are the same int; float64 +0 and -0 are equal
KeyEq(a, b) ==
    \/ a = b
    \/ IsFloat(a) /\ IsFloat(b) /\ Magnitude(a) = 0 /\ Magnitude(b) = 0

\* %v prints a float64 of integral magnitude as its digits, after a '-' when
\* the sign bit is set: "0" for +0 and "-0" for -0
keyString(key) ==
    IF IsFloat(key)
    THEN (IF SignBit(key) = 1 THEN << AsciiMinus >> ELSE << >>) \o Digits(Magnitude(key))
    ELSE IF key < 0 THEN << AsciiMinus >> \o Digits(0 - key) ELSE Digits(key)

\* the hash getShard computes for a key
keyHash(key) == Sum32(keyString(key))
HashTable == [k \in HashedKeys |-> keyHash(k)]
hashOf(key) == IF key \in HashedKeys THEN HashTable[key] ELSE keyHash(key)

\* h.Sum32() & c.shardMask, the index getShard uses
shardIndex(key, mask) == And32(hashOf(key), mask)

\* shardMask: uint32(shardCount) - 1
maskOf(shardCount) == Dec32(ToUint32(shardCount))

\* an index expression c.shards[u] is in range iff u < len(c.shards)
InRange(u, len) == u.hi = 0 /\ u.lo < len

\* a uint32 reduced modulo n > 0
Mod32(u, n) == ((u.hi % n) * (Half % n) + (u.lo % n)) % n


(***************************************************************************)
(* State.                                                                  *)
(*                                                                         *)
(* A map instance lives in a slot m of the caller (a variable holding a    *)
(* *ConcurrentHashMap).  Shard structs are addressed by <<m, i>>; the Go   *)
(* map a shard's items field refers to is a separate heap object, so that  *)
(* two shards could in principle refer to the same Go map.                 *)
(***************************************************************************)
VARIABLES
    cmap,       \* slot -> [shards: sequence of shard addresses, shardMask] or Nil
    itemsOf,    \* shard address -> the heap object its items field refers to
    heap,       \* heap object -> the Go map: a function from present keys to values
    rlocks,     \* shard address -> bag of goroutines holding the RWMutex shared
    wlock,      \* shard address -> goroutine holding the writer side, or NoProc
    pc,         \* goroutine -> statement it is at
    call,       \* goroutine -> the call it is executing and its arguments
    loc,        \* goroutine -> local variables of the call
    expect,     \* history: goroutine -> the settled entry of its key when Get was called
    last,       \* history: <<m, key>> -> outcome of the writes of that key so far
    trav,       \* history: goroutine -> what its traversal has done so far
    fresh       \* history: the <<source, clone>> slots not written since the Clone

vars == << cmap, itemsOf, heap, rlocks, wlock, pc, call, loc, expect, last, trav, fresh >>

MapIds == {1, 2}
Nil == [shards |-> << >>, shardMask |-> U32(0, 0), live |-> FALSE]
NoProc == 0

Proc == DOMAIN pc

\* a call made from inside another call keeps the caller's frame: where the
\* caller resumes, and its call and locals.  NoFrame: called from outside.
NoFrame == [pc |-> "none"]

NoCall == [op |-> "none", m |-> 0, key |-> 0, val |-> 0, stop |-> 0, other |-> 0, eq |-> "none",
           seq |-> << >>, outer |-> NoFrame, act |-> "false"]
NoLoc == [sh |-> <<0, 0>>, osh |-> <<0, 0>>, i |-> 0, todo |-> {}, val |-> 0, ok |-> FALSE]
NoTrav == [seen |-> << >>, locked |-> << >>, stopped |-> FALSE, before |-> {},
           mark |-> 0, snap |-> {}, hist |-> TRUE]

Unknown == [st |-> "unknown", v |-> 0]
Absent == [st |-> "absent", v |-> 0]
Settled(v) == [st |-> "val", v |-> v]
NoLast == [v |-> Absent, solo |-> FALSE, over |-> FALSE, lin |-> Absent]

\* the history of a call that starts on the entries es; what the map held at
\* the call is kept only for the goroutines whose history asks for it
NewTrav(h, es) == [NoTrav EXCEPT !.hist = h.hist, !.before = IF h.hist THEN es ELSE {}]

\* a goroutine is free to make a call: it is between calls, or it was started
\* with a go statement and has not made its call yet
Ready(t) == pc[t] \in {"idle", "go"}

\* a goroutine is between the call and the return of an operation
Running(t) == pc[t] \notin {"idle", "go", "off", "panic"}

\* the empty Go map and its update operations
EmptyMap == [k \in {} |-> 0]
\* a Set that replaces the shard's map by one holding only the new entry
MapPut_replace(mp, k, v) == [x \in {k} |-> v]
\* the keys stored in a Go map that are equal to k: none or one
Stored(mp, k) == { x \in DOMAIN mp : KeyEq(x, k) }
\* mp[k] = v: the entry of an equal key is replaced, key included
MapPut(mp, k, v) ==
    [x \in (DOMAIN mp \ Stored(mp, k)) \cup {k} |-> IF x = k THEN v ELSE mp[x]]
\* a Delete that clears the shard's map
MapDel_clear(mp, k) == [x \in {} |-> mp[x]]
\* delete(mp, k)
MapDel(mp, k) == [x \in DOMAIN mp \ Stored(mp, k) |-> mp[x]]
\* v, ok := mp[k]
MapHas(mp, k) == Stored(mp, k) # {}
\* a lookup that returns the value of whatever entry comes first
MapGet_any(mp, k) == mp[CHOOSE x \in DOMAIN mp : TRUE]
MapGet(mp, k) == mp[CHOOSE x \in Stored(mp, k) : TRUE]

\* len(c.shards)
NumShards(m) == Len(cmap[m].shards)

\* the Go map of shard i (0-based) of the instance in slot m
ItemsAt(m, i) == heap[itemsOf[cmap[m].shards[i + 1]]]

\* all entries of the instance in slot m, shard by shard: the set of <<key, value>>
Contents(m) ==
    UNION { { <<k, ItemsAt(m, i)[k]>> : k \in DOMAIN ItemsAt(m, i) } : i \in 0 .. NumShards(m) - 1 }

\* the shards of m that hold an entry for key
ShardsHolding(m, key) == { i \in 0 .. NumShards(m) - 1 : MapHas(ItemsAt(m, i), key) }

(***************************************************************************)
(* NewConcurrentHashMap(shardCount).  make([]*shard, shardCount) panics    *)
(* for a negative length; every other count yields an instance.            *)
(***************************************************************************)
\* the clone pairs that do not involve slot m
Untouched(m) == { p \in fresh : p[1] # m /\ p[2] # m }

ShardAddrs(m, n) == { <<m, i>> : i \in 0 .. n - 1 }

NewInstance(m, shardCount) ==
    [shards |-> [j \in 1 .. shardCount |-> <<m, j - 1>>],
     shardMask |-> maskOf(shardCount),
     live |-> TRUE]

\* the heap after slot m received a fresh instance of n shards
Fresh(f, m, n, zero) ==
    [a \in { x \in DOMAIN f : x[1] # m } \cup ShardAddrs(m, n) |->
        IF a[1] = m THEN zero ELSE f[a]]

\* each new shard struct refers to its own new Go map
FreshRefs(f, m, n) ==
    [a \in { x \in DOMAIN f : x[1] # m } \cup ShardAddrs(m, n) |->
        IF a[1] = m THEN a ELSE f[a]]

Allocate(m, n) ==
    /\ cmap' = [cmap EXCEPT ![m] = NewInstance(m, n)]
    /\ itemsOf' = FreshRefs(itemsOf, m, n)
    /\ heap' = Fresh(heap, m, n, EmptyMap)
    /\ rlocks' = Fresh(rlocks, m, n, EmptyBag)
    /\ wlock' = Fresh(wlock, m, n, NoProc)
    /\ last' = [x \in { y \in DOMAIN last : y[1] # m } |-> last[x]]
    /\ fresh' = Untouched(m)

New_call(t, m, shardCount) ==
    /\ pc[t] = "idle"
    /\ UNCHANGED << loc, expect, trav >>
    /\ IF shardCount < 0
       THEN /\ pc' = [pc EXCEPT ![t] = "panic"]
            /\ call' = [call EXCEPT ![t] = [NoCall EXCEPT !.op = "New", !.m = m, !.val = shardCount]]
            /\ UNCHANGED << cmap, itemsOf, heap, rlocks, wlock, last, fresh >>
       ELSE /\ UNCHANGED << pc, call >>
            /\ Allocate(m, shardCount)

\* the call returns: the goroutine is free to make its next call, or the
\* caller inside the package resumes
Return(t) ==
    IF call[t].outer.pc = "none"
    THEN /\ pc' = [pc EXCEPT ![t] = "idle"]
         /\ call' = [call EXCEPT ![t] = NoCall]
         /\ loc' = [loc EXCEPT ![t] = NoLoc]
    ELSE /\ pc' = [pc EXCEPT ![t] = call[t].outer.pc]
         /\ call' = [call EXCEPT ![t] = call[t].outer.call]
         /\ loc' = [loc EXCEPT ![t] = call[t].outer.loc]

(***************************************************************************)
(* sync.RWMutex.  Lock first takes the writer side, which keeps new        *)
(* readers out, and then waits for the readers already inside to leave.    *)
(***************************************************************************)
\* an RLock that does not wait for the writer
CanRLock_always(sh) == TRUE
CanRLock(sh) == wlock[sh] = NoProc
\* an RLock that does not register the reader
RLock_none(t, sh) == rlocks' = rlocks
RLock(t, sh) == rlocks' = [rlocks EXCEPT ![sh] = @ (+) SetToBag({t})]
RUnlock(t, sh) == rlocks' = [rlocks EXCEPT ![sh] = @ (-) SetToBag({t})]
CanLock(sh) == wlock[sh] = NoProc
Lock(t, sh) == wlock' = [wlock EXCEPT ![sh] = t]
\* a Lock that does not wait for the caller's own shared lock
LockGranted_reentrant(t, sh) == wlock[sh] = t /\ rlocks[sh] (-) SetToBag({t}) = EmptyBag
LockGranted(t, sh) == wlock[sh] = t /\ rlocks[sh] = EmptyBag
\* an Unlock that leaves the writer side taken
Unlock_keep(t, sh) == wlock' = wlock
Unlock(t, sh) == wlock' = [wlock EXCEPT ![sh] = NoProc]

\* the shards whose RWMutex goroutine t holds, shared or exclusive
Held(t) ==
    { sh \in DOMAIN rlocks : BagIn(t, rlocks[sh]) \/ LockGranted(t, sh) }

(***************************************************************************)
(* getShard: the shard the key routes to, or an index out of range.        *)
(***************************************************************************)
getShardOk(m, key) == InRange(shardIndex(key, cmap[m].shardMask), NumShards(m))
getShard(m, key) == cmap[m].shards[shardIndex(key, cmap[m].shardMask).lo + 1]

\* entering a single-key operation: the call and its first statement, getShard
EnterFrom(t, op, m, key, val, frame) ==
    /\ cmap[m].live
    /\ call' = [call EXCEPT ![t] = [NoCall EXCEPT !.op = op, !.m = m, !.key = key, !.val = val,
                                                   !.outer = frame]]
    /\ UNCHANGED trav
    /\ IF getShardOk(m, key)
       THEN /\ loc' = [loc EXCEPT ![t] = [NoLoc EXCEPT !.sh = getShard(m, key)]]
            /\ pc' = [pc EXCEPT ![t] = IF op = "Get" THEN "Get_RLock" ELSE op \o "_Lock"]
       ELSE /\ loc' = [loc EXCEPT ![t] = NoLoc]
            /\ pc' = [pc EXCEPT ![t] = "panic"]

Enter(t, op, m, key, val) == Ready(t) /\ EnterFrom(t, op, m, key, val, NoFrame)

(***************************************************************************)
(* History of the writes of a key, kept to state what a later Get must     *)
(* see.  A write is solo when no other write of the same key of the same   *)
(* map is running at any time between its call and its return.  The entry  *)
(* of a key is settled when its last write was solo and has returned; a    *)
(* key never written in a new instance is settled as absent.  over: the    *)
(* settled value was Set over a settled value.  lin: the entry of the key  *)
(* in the sequential history of the writes in the order in which their     *)
(* store or delete statements were executed.                               *)
(***************************************************************************)
LastOf(m, key) == IF <<m, key>> \in DOMAIN last THEN last[<<m, key>>] ELSE NoLast

WritersOf(m, key) ==
    { u \in Proc : Running(u) /\ call[u].op \in {"Set", "Delete"}
                   /\ call[u].m = m /\ call[u].key = key }

SetLast(m, key, r) ==
    last' = [x \in DOMAIN last \cup {<<m, key>>} |-> IF x = <<m, key>> THEN r ELSE last[x]]

NoteWriteCall(t, m, key) ==
    /\ SetLast(m, key, [v |-> Unknown,
                        solo |-> WritersOf(m, key) = {},
                        over |-> WritersOf(m, key) = {} /\ LastOf(m, key).v.st = "val",
                        lin |-> LastOf(m, key).lin])
    /\ expect' = [u \in Proc |->
                    IF u = t THEN LastOf(m, key).v
                    ELSE IF Running(u) /\ call[u].op = "Get"
                            /\ call[u].m = m /\ call[u].key = key
                    THEN Unknown ELSE expect[u]]
    /\ fresh' = Untouched(m)

NoteWriteReturn(t, outcome) ==
    LET m == call[t].m
        key == call[t].key
        r == LastOf(m, key)
    IN  SetLast(m, key, IF r.solo
                        THEN [v |-> outcome, solo |-> FALSE, over |-> r.over /\ outcome.st = "val",
                              lin |-> r.lin]
                        ELSE [v |-> Unknown, solo |-> FALSE, over |-> FALSE, lin |-> r.lin])

\* the store or delete statement of a write of goroutine t is executed: the
\* write takes its place in the sequential history of its key
NoteWriteEffect(t, outcome) ==
    SetLast(call[t].m, call[t].key, [LastOf(call[t].m, call[t].key) EXCEPT !.lin = outcome])

(***************************************************************************)
(* Get                                                                     *)
(***************************************************************************)
Get_call(t, m, key) ==
    /\ Enter(t, "Get", m, key, 0)
    /\ expect' = [expect EXCEPT ![t] = LastOf(m, key).v]
    /\ UNCHANGED << cmap, itemsOf, heap, rlocks, wlock, last, fresh >>

Get_RLock(t) ==
    /\ pc[t] = "Get_RLock"
    /\ CanRLock(loc[t].sh)
    /\ RLock(t, loc[t].sh)
    /\ pc' = [pc EXCEPT ![t] = "Get_read"]
    /\ UNCHANGED << cmap, itemsOf, heap, wlock, call, loc, expect, last, trav, fresh >>

\* val, ok := shard.items[key]
Get_read(t) ==
    LET items == heap[itemsOf[loc[t].sh]]
        key == call[t].key
    IN  /\ pc[t] = "Get_read"
        /\ loc' = [loc EXCEPT ![t] = [@ EXCEPT !.ok = MapHas(items, key),
                                               !.val = IF MapHas(items, key) THEN MapGet(items, key) ELSE 0]]
        /\ pc' = [pc EXCEPT ![t] = "Get_RUnlock"]
        /\ UNCHANGED << cmap, itemsOf, heap, rlocks, wlock, call, expect, last, trav, fresh >>

\* return val, ok: the results are loc[t].val and loc[t].ok; the deferred RUnlock runs
Get_RUnlock(t) ==
    /\ pc[t] = "Get_RUnlock"
    /\ RUnlock(t, loc[t].sh)
    /\ Return(t)
    /\ expect' = [expect EXCEPT ![t] = Unknown]
    /\ UNCHANGED << cmap, itemsOf, heap, wlock, last, trav, fresh >>

(***************************************************************************)
(* Set and Delete                                                          *)
(***************************************************************************)
\* Set called with the frame of its caller
Set_callFrom(t, m, key, value, frame) ==
    /\ EnterFrom(t, "Set", m, key, value, frame)
    /\ NoteWriteCall(t, m, key)
    /\ UNCHANGED << cmap, itemsOf, heap, rlocks, wlock >>

Set_call(t, m, key, value) == Ready(t) /\ Set_callFrom(t, m, key, value, NoFrame)

\* Delete called with the frame of its caller
Delete_callFrom(t, m, key, frame) ==
    /\ EnterFrom(t, "Delete", m, key, 0, frame)
    /\ NoteWriteCall(t, m, key)
    /\ UNCHANGED << cmap, itemsOf, heap, rlocks, wlock >>

Delete_call(t, m, key) == Ready(t) /\ Delete_callFrom(t, m, key, NoFrame)

\* shard.Lock(), first half: take the writer side
Write_Lock(t) ==
    /\ pc[t] \in {"Set_Lock", "Delete_Lock"}
    /\ CanLock(loc[t].sh)
    /\ Lock(t, loc[t].sh)
    /\ pc' = [pc EXCEPT ![t] = call[t].op \o "_LockWait"]
    /\ UNCHANGED << cmap, itemsOf, heap, rlocks, call, loc, expect, last, trav, fresh >>

\* shard.Lock(), second half: the readers have left
Write_LockWait(t) ==
    /\ pc[t] \in {"Set_LockWait", "Delete_LockWait"}
    /\ LockGranted(t, loc[t].sh)
    /\ pc' = [pc EXCEPT ![t] = call[t].op \o "_write"]
    /\ UNCHANGED << cmap, itemsOf, heap, rlocks, wlock, call, loc, expect, last, trav, fresh >>

\* a Set that picks the shard from the value instead of the key
Set_write_byValue(t) ==
    LET m == call[t].m
        sh == cmap[m].shards[(call[t].val % NumShards(m)) + 1]
    IN  /\ pc[t] = "Set_write"
        /\ heap' = [heap EXCEPT ![itemsOf[sh]] = MapPut(@, call[t].key, call[t].val)]
        /\ NoteWriteEffect(t, Settled(call[t].val))
        /\ pc' = [pc EXCEPT ![t] = "Set_Unlock"]
        /\ UNCHANGED << cmap, itemsOf, rlocks, wlock, call, loc, expect, trav, fresh >>

\* shard.items[key] = value
Set_write(t) ==
    /\ pc[t] = "Set_write"
    /\ heap' = [heap EXCEPT ![itemsOf[loc[t].sh]] = MapPut(@, call[t].key, call[t].val)]
    /\ NoteWriteEffect(t, Settled(call[t].val))
    /\ pc' = [pc EXCEPT ![t] = "Set_Unlock"]
    /\ UNCHANGED << cmap, itemsOf, rlocks, wlock, call, loc, expect, trav, fresh >>

\* delete(shard.items, key)
Delete_write(t) ==
    /\ pc[t] = "Delete_write"
    /\ heap' = [heap EXCEPT ![itemsOf[loc[t].sh]] = MapDel(@, call[t].key)]
    /\ NoteWriteEffect(t, Absent)
    /\ pc' = [pc EXCEPT ![t] = "Delete_Unlock"]
    /\ UNCHANGED << cmap, itemsOf, rlocks, wlock, call, loc, expect, trav, fresh >>

\* the deferred Unlock and the return
Write_Unlock(t) ==
    /\ pc[t] \in {"Set_Unlock", "Delete_Unlock"}
    /\ Unlock(t, loc[t].sh)
    /\ NoteWriteReturn(t, IF call[t].op = "Set" THEN Settled(call[t].val) ELSE Absent)
    /\ Return(t)
    /\ expect' = [expect EXCEPT ![t] = Unknown]
    /\ UNCHANGED << cmap, itemsOf, heap, rlocks, trav, fresh >>

\* the steps inside Get, Set and Delete
KeyStep(t) ==
    \/ Get_RLock(t)
    \/ Get_read(t)
    \/ Get_RUnlock(t)
    \/ Write_Lock(t)
    \/ Write_LockWait(t)
    \/ Set_write(t)
    \/ Delete_write(t)
    \/ Write_Unlock(t)

(***************************************************************************)
(* Range, and the iterators All, Keys and Values, whose loops are the      *)
(* loops of Range with yield in the place of f.  The visitor is the        *)
(* caller's: it is modelled by the number of its call from which on it     *)
(* does something else than return true (stop = 0: it always returns       *)
(* true), and by what it does then: return false, panic, or call Set or    *)
(* Delete on the map being traversed.  While the shard is read-locked      *)
(* nobody changes its map, so the keys the range statement still has to    *)
(* deliver are the ones not yet delivered; their order is not specified.   *)
(***************************************************************************)
\* a loop over the shards that takes the first shard on every round
ShardAt_first(m, i) == cmap[m].shards[1]

\* the slice c.shards, 0-based
ShardAt(m, i) == cmap[m].shards[i + 1]

\* what f returns on the call that makes its calls number n
VisitorContinues(stop, n) == stop = 0 \/ n < stop

\* what the visitor does on the call that makes its calls number n
VisitorDoes(c, n) == IF VisitorContinues(c.stop, n) THEN "true" ELSE c.act

\* the call of a traversal: the loop over c.shards begins
Traverse_call(t, op, m, stop, act, key, val) ==
    /\ Ready(t)
    /\ cmap[m].live
    /\ call' = [call EXCEPT ![t] = [NoCall EXCEPT !.op = op, !.m = m, !.stop = stop,
                                                   !.act = act, !.key = key, !.val = val]]
    /\ loc' = [loc EXCEPT ![t] = NoLoc]
    /\ trav' = [trav EXCEPT ![t] = NewTrav(trav[t], Contents(m))]
    /\ pc' = [pc EXCEPT ![t] = IF NumShards(m) > 0 THEN "Range_RLock" ELSE "Range_return"]
    /\ UNCHANGED << cmap, itemsOf, heap, rlocks, wlock, expect, last, fresh >>

\* Range with a visitor that returns false on its call number stop
Range_call(t, m, stop) == Traverse_call(t, "Range", m, stop, "false", 0, 0)

\* for k, v := range c.All() with a loop body that breaks in round stop
All_call(t, m, stop) == Traverse_call(t, "All", m, stop, "false", 0, 0)

\* for k := range c.Keys()
Keys_call(t, m, stop) == Traverse_call(t, "Keys", m, stop, "false", 0, 0)

\* for v := range c.Values()
Values_call(t, m, stop) == Traverse_call(t, "Values", m, stop, "false", 0, 0)

\* c.Collect(): maps.Collect ranges over c.All() to its end
Collect_call(t, m) == Traverse_call(t, "Collect", m, 0, "false", 0, 0)

\* shard.RLock() and the start of the range over shard.items
Range_RLock(t) ==
    LET sh == ShardAt(call[t].m, loc[t].i)
    IN  /\ pc[t] = "Range_RLock"
        /\ CanRLock(sh)
        /\ RLock(t, sh)
        /\ loc' = [loc EXCEPT ![t] = [@ EXCEPT !.sh = sh, !.todo = DOMAIN heap[itemsOf[sh]]]]
        /\ trav' = [trav EXCEPT ![t] = [@ EXCEPT !.locked = Append(@, loc[t].i),
                                                  !.mark = Len(trav[t].seen),
                                                  !.snap = { <<k, heap[itemsOf[sh]][k]>> :
                                                                k \in DOMAIN heap[itemsOf[sh]] }]]
        /\ pc' = [pc EXCEPT ![t] = "Range_iter"]
        /\ UNCHANGED << cmap, itemsOf, heap, wlock, call, expect, last, fresh >>

\* a Range that leaves only the inner loop when f returns false
Range_afterStop_break == "Range_RUnlock"

\* where Range goes after f returned false: RUnlock and return
Range_afterStop == "Range_stopUnlock"

\* one round of the inner loop: the next entry and the call of f on it
Range_iter(t) ==
    /\ pc[t] = "Range_iter"
    /\ loc[t].todo # {}
    /\ \E k \in loc[t].todo :
          LET seen == Append(trav[t].seen, <<k, heap[itemsOf[loc[t].sh]][k]>>)
              does == VisitorDoes(call[t], Len(seen))
          IN  /\ trav' = [trav EXCEPT ![t] = [@ EXCEPT !.seen = seen, !.stopped = does = "false"]]
              /\ loc' = [loc EXCEPT ![t] = [@ EXCEPT !.todo = @ \ {k}]]
              /\ pc' = [pc EXCEPT ![t] =
                          CASE does = "true" -> "Range_iter"
                            [] does = "false" -> Range_afterStop
                            [] does = "panic" -> "Range_panic"
                            [] OTHER -> "Range_visit"]
    /\ UNCHANGED << cmap, itemsOf, heap, rlocks, wlock, call, expect, last, fresh >>

\* the inner loop is over
Range_iterEnd(t) ==
    /\ pc[t] = "Range_iter"
    /\ loc[t].todo = {}
    /\ pc' = [pc EXCEPT ![t] = "Range_RUnlock"]
    /\ UNCHANGED << cmap, itemsOf, heap, rlocks, wlock, call, loc, expect, last, trav, fresh >>

\* shard.RUnlock() at the end of the outer loop body, and the loop condition
Range_RUnlock(t) ==
    /\ pc[t] = "Range_RUnlock"
    /\ RUnlock(t, loc[t].sh)
    /\ loc' = [loc EXCEPT ![t] = [@ EXCEPT !.i = @ + 1, !.todo = {}]]
    /\ pc' = [pc EXCEPT ![t] =
                IF loc[t].i + 1 < NumShards(call[t].m) THEN "Range_RLock" ELSE "Range_return"]
    /\ UNCHANGED << cmap, itemsOf, heap, wlock, call, expect, last, trav, fresh >>

\* shard.RUnlock() after f returned false
Range_stopUnlock(t) ==
    /\ pc[t] = "Range_stopUnlock"
    /\ RUnlock(t, loc[t].sh)
    /\ pc' = [pc EXCEPT ![t] = "Range_return"]
    /\ UNCHANGED << cmap, itemsOf, heap, wlock, call, loc, expect, last, trav, fresh >>

Range_return(t) ==
    /\ pc[t] = "Range_return"
    /\ Return(t)
    /\ trav' = [trav EXCEPT ![t] = NewTrav(trav[t], {})]
    /\ UNCHANGED << cmap, itemsOf, heap, rlocks, wlock, expect, last, fresh >>

RangeStep(t) ==
    \/ Range_RLock(t)
    \/ Range_iter(t)
    \/ Range_iterEnd(t)
    \/ Range_RUnlock(t)
    \/ Range_stopUnlock(t)
    \/ Range_return(t)

\* f panicked: the panic leaves Range, which has deferred nothing, and the
\* caller recovers from it
Range_unwind(t) ==
    /\ pc[t] = "Range_panic"
    /\ Return(t)
    /\ trav' = [trav EXCEPT ![t] = NewTrav(trav[t], {})]
    /\ UNCHANGED << cmap, itemsOf, heap, rlocks, wlock, expect, last, fresh >>

\* f calls c.Set(key, value) on the map being traversed and then returns true
Visitor_Set(t) ==
    /\ pc[t] = "Range_visit"
    /\ call[t].act = "Set"
    /\ Set_callFrom(t, call[t].m, call[t].key, call[t].val,
                    [pc |-> "Range_iter", call |-> call[t], loc |-> loc[t]])

\* f calls c.Delete(key) on the map being traversed and then returns true
Visitor_Delete(t) ==
    /\ pc[t] = "Range_visit"
    /\ call[t].act = "Delete"
    /\ Delete_callFrom(t, call[t].m, call[t].key,
                       [pc |-> "Range_iter", call |-> call[t], loc |-> loc[t]])

VisitStep(t) ==
    \/ Range_unwind(t)
    \/ Visitor_Set(t)
    \/ Visitor_Delete(t)

(***************************************************************************)
(* Collect: maps.Collect(c.All()) when nobody writes meanwhile.  All       *)
(* yields the shards in index order, and maps.Collect stores each pair     *)
(* under its key, so a later pair replaces an earlier one of the same key. *)
(***************************************************************************)
RECURSIVE CollectFrom(_, _, _)
CollectFrom(m, i, acc) ==
    IF i >= NumShards(m) THEN acc
    ELSE CollectFrom(m, i + 1,
            [k \in { x \in DOMAIN acc : ~MapHas(ItemsAt(m, i), x) } \cup DOMAIN ItemsAt(m, i) |->
                IF k \in DOMAIN ItemsAt(m, i) THEN ItemsAt(m, i)[k] ELSE acc[k]])

Collect(m) == CollectFrom(m, 0, EmptyMap)

(***************************************************************************)
(* Insert.  seq is the caller's producer: it is modelled by the pairs it   *)
(* hands to yield, in order.  The yield Insert passes calls Set and        *)
(* returns true, so the producer goes on to its next pair.                 *)
(***************************************************************************)
\* an Insert that takes the pairs from the end of what is produced
InsertPair_reversed(seq, i) == seq[Len(seq) - i]

\* the pair the producer hands to yield after i pairs
InsertPair(seq, i) == seq[i + 1]

Insert_call(t, m, seq) ==
    /\ Ready(t)
    /\ cmap[m].live
    /\ call' = [call EXCEPT ![t] = [NoCall EXCEPT !.op = "Insert", !.m = m, !.seq = seq]]
    /\ loc' = [loc EXCEPT ![t] = NoLoc]
    /\ trav' = [trav EXCEPT ![t] = NewTrav(trav[t], Contents(m))]
    /\ pc' = [pc EXCEPT ![t] = "Insert_next"]
    /\ UNCHANGED << cmap, itemsOf, heap, rlocks, wlock, expect, last, fresh >>

\* the producer yields its next pair: c.Set(k, v), after which the producer
\* resumes behind this pair
Insert_yield(t) ==
    /\ pc[t] = "Insert_next"
    /\ loc[t].i < Len(call[t].seq)
    /\ Set_callFrom(t, call[t].m,
                    InsertPair(call[t].seq, loc[t].i)[1], InsertPair(call[t].seq, loc[t].i)[2],
                    [pc |-> "Insert_next", call |-> call[t],
                     loc |-> [loc[t] EXCEPT !.i = @ + 1]])

\* the producer has no more pairs: seq returns and Insert returns
Insert_return(t) ==
    /\ pc[t] = "Insert_next"
    /\ loc[t].i >= Len(call[t].seq)
    /\ Return(t)
    /\ trav' = [trav EXCEPT ![t] = NewTrav(trav[t], {})]
    /\ UNCHANGED << cmap, itemsOf, heap, rlocks, wlock, expect, last, fresh >>

InsertStep(t) ==
    \/ Insert_yield(t)
    \/ Insert_return(t)

(***************************************************************************)
(* Clone.  The new instance is built in the caller's other slot.           *)
(***************************************************************************)
OtherSlot(m) == CHOOSE d \in MapIds : d # m

\* a Clone that stores the source's map itself in the new shard
mapsClone_alias(srcObj, newObj) == srcObj

\* the Go map maps.Clone returns: a new object
mapsClone(srcObj, newObj) == newObj

Clone_call(t, m) ==
    /\ pc[t] = "idle"
    /\ cmap[m].live
    /\ call' = [call EXCEPT ![t] = [NoCall EXCEPT !.op = "Clone", !.m = m, !.other = OtherSlot(m)]]
    /\ loc' = [loc EXCEPT ![t] = NoLoc]
    /\ Allocate(OtherSlot(m), NumShards(m))
    /\ pc' = [pc EXCEPT ![t] = IF NumShards(m) > 0 THEN "Clone_RLock" ELSE "Clone_return"]
    /\ UNCHANGED << expect, trav >>

Clone_RLock(t) ==
    LET sh == ShardAt(call[t].m, loc[t].i)
    IN  /\ pc[t] = "Clone_RLock"
        /\ CanRLock(sh)
        /\ RLock(t, sh)
        /\ loc' = [loc EXCEPT ![t] = [@ EXCEPT !.sh = sh, !.osh = ShardAt(call[t].other, loc[t].i)]]
        /\ pc' = [pc EXCEPT ![t] = "Clone_copy"]
        /\ UNCHANGED << cmap, itemsOf, heap, wlock, call, expect, last, trav, fresh >>

\* newMap.shards[i].items = maps.Clone(shard.items)
Clone_copy(t) ==
    /\ pc[t] = "Clone_copy"
    /\ heap' = [heap EXCEPT ![loc[t].osh] = heap[itemsOf[loc[t].sh]]]
    /\ itemsOf' = [itemsOf EXCEPT ![loc[t].osh] = mapsClone(itemsOf[loc[t].sh], loc[t].osh)]
    /\ last' = [x \in DOMAIN last \cup { <<call[t].other, k>> : k \in DOMAIN heap[itemsOf[loc[t].sh]] } |->
                    IF x[1] = call[t].other /\ x[2] \in DOMAIN heap[itemsOf[loc[t].sh]]
                    THEN [v |-> Settled(heap[itemsOf[loc[t].sh]][x[2]]), solo |-> FALSE, over |-> FALSE,
                          lin |-> Settled(heap[itemsOf[loc[t].sh]][x[2]])]
                    ELSE last[x]]
    /\ pc' = [pc EXCEPT ![t] = "Clone_RUnlock"]
    /\ UNCHANGED << cmap, rlocks, wlock, call, loc, expect, trav, fresh >>

Clone_RUnlock(t) ==
    /\ pc[t] = "Clone_RUnlock"
    /\ RUnlock(t, loc[t].sh)
    /\ loc' = [loc EXCEPT ![t] = [@ EXCEPT !.i = @ + 1]]
    /\ pc' = [pc EXCEPT ![t] =
                IF loc[t].i + 1 < NumShards(call[t].m) THEN "Clone_RLock" ELSE "Clone_return"]
    /\ UNCHANGED << cmap, itemsOf, heap, wlock, call, expect, last, trav, fresh >>

\* return newMap
Clone_return(t) ==
    /\ pc[t] = "Clone_return"
    /\ Return(t)
    /\ fresh' = fresh \cup { <<call[t].m, call[t].other>> }
    /\ UNCHANGED << cmap, itemsOf, heap, rlocks, wlock, expect, last, trav >>

CloneStep(t) ==
    \/ Clone_RLock(t)
    \/ Clone_copy(t)
    \/ Clone_RUnlock(t)
    \/ Clone_return(t)

(***************************************************************************)
(* EqualFunc.  eq is the caller's; the model knows the predicate "==" and  *)
(* an eq that panics when it is called.                                    *)
(***************************************************************************)
EqApply(eq, a, b) == IF eq = "==" THEN a = b ELSE FALSE

\* maps.EqualFunc calls eq on the first key of m1 it finds in m2, if the
\* lengths are equal and the range over m1 comes to such a key
EqCalled(m1, m2) ==
    /\ Cardinality(DOMAIN m1) = Cardinality(DOMAIN m2)
    /\ \E k \in DOMAIN m1 : MapHas(m2, k)

\* maps.EqualFunc returns without calling eq: the lengths differ, m1 is
\* empty, or the range over m1 comes first to a key that m2 lacks
EqSkipped(m1, m2) ==
    \/ Cardinality(DOMAIN m1) # Cardinality(DOMAIN m2)
    \/ DOMAIN m1 = {}
    \/ \E k \in DOMAIN m1 : ~MapHas(m2, k)

\* maps.EqualFunc with the result of eq inverted
mapsEqualFunc_inverted(m1, m2, eq) ==
    /\ Cardinality(DOMAIN m1) = Cardinality(DOMAIN m2)
    /\ \A k \in DOMAIN m1 : MapHas(m2, k) /\ ~EqApply(eq, m1[k], MapGet(m2, k))

\* maps.EqualFunc: same length, and every key of m1 is in m2 with an eq value
mapsEqualFunc(m1, m2, eq) ==
    /\ Cardinality(DOMAIN m1) = Cardinality(DOMAIN m2)
    /\ \A k \in DOMAIN m1 : MapHas(m2, k) /\ EqApply(eq, m1[k], MapGet(m2, k))

\* an EqualFunc that does not compare the shard counts
EqualFunc_first_unchecked(m, other) ==
    IF NumShards(m) > 0 THEN "EqualFunc_RLock" ELSE "EqualFunc_return"

\* where EqualFunc goes after comparing len(c.shards) with len(other.shards)
EqualFunc_first(m, other) ==
    IF NumShards(m) = NumShards(other) /\ NumShards(m) > 0
    THEN "EqualFunc_RLock" ELSE "EqualFunc_return"

\* the call and the comparison of the shard counts
EqualFunc_call(t, m, other, eq) ==
    /\ Ready(t)
    /\ cmap[m].live /\ cmap[other].live
    /\ call' = [call EXCEPT ![t] = [NoCall EXCEPT !.op = "EqualFunc", !.m = m, !.other = other, !.eq = eq]]
    /\ loc' = [loc EXCEPT ![t] = [NoLoc EXCEPT !.ok = NumShards(m) = NumShards(other)]]
    /\ pc' = [pc EXCEPT ![t] = EqualFunc_first(m, other)]
    /\ UNCHANGED << cmap, itemsOf, heap, rlocks, wlock, expect, last, trav, fresh >>

EqualFunc_RLock(t) ==
    LET sh == ShardAt(call[t].m, loc[t].i)
    IN  /\ pc[t] = "EqualFunc_RLock"
        /\ CanRLock(sh)
        /\ RLock(t, sh)
        /\ loc' = [loc EXCEPT ![t] = [@ EXCEPT !.sh = sh, !.osh = ShardAt(call[t].other, loc[t].i)]]
        /\ pc' = [pc EXCEPT ![t] = "EqualFunc_RLockOther"]
        /\ UNCHANGED << cmap, itemsOf, heap, wlock, call, expect, last, trav, fresh >>

EqualFunc_RLockOther(t) ==
    /\ pc[t] = "EqualFunc_RLockOther"
    /\ CanRLock(loc[t].osh)
    /\ RLock(t, loc[t].osh)
    /\ pc' = [pc EXCEPT ![t] = "EqualFunc_compare"]
    /\ UNCHANGED << cmap, itemsOf, heap, wlock, call, loc, expect, last, trav, fresh >>

\* equal := maps.EqualFunc(shard.items, otherShard.items, eq)
EqualFunc_compare(t) ==
    /\ pc[t] = "EqualFunc_compare"
    /\ call[t].eq = "panic" => EqSkipped(heap[itemsOf[loc[t].sh]], heap[itemsOf[loc[t].osh]])
    /\ loc' = [loc EXCEPT ![t] = [@ EXCEPT !.ok =
                 mapsEqualFunc(heap[itemsOf[loc[t].sh]], heap[itemsOf[loc[t].osh]], call[t].eq)]]
    /\ pc' = [pc EXCEPT ![t] = "EqualFunc_RUnlockOther"]
    /\ UNCHANGED << cmap, itemsOf, heap, rlocks, wlock, call, expect, last, trav, fresh >>

\* eq panics inside maps.EqualFunc
EqualFunc_eqPanics(t) ==
    /\ pc[t] = "EqualFunc_compare"
    /\ call[t].eq = "panic"
    /\ EqCalled(heap[itemsOf[loc[t].sh]], heap[itemsOf[loc[t].osh]])
    /\ pc' = [pc EXCEPT ![t] = "EqualFunc_panic"]
    /\ UNCHANGED << cmap, itemsOf, heap, rlocks, wlock, call, loc, expect, last, trav, fresh >>

\* the panic leaves EqualFunc, which has deferred nothing, and the caller
\* recovers from it
EqualFunc_unwind(t) ==
    /\ pc[t] = "EqualFunc_panic"
    /\ Return(t)
    /\ UNCHANGED << cmap, itemsOf, heap, rlocks, wlock, expect, last, trav, fresh >>

EqualFunc_RUnlockOther(t) ==
    /\ pc[t] = "EqualFunc_RUnlockOther"
    /\ RUnlock(t, loc[t].osh)
    /\ pc' = [pc EXCEPT ![t] = "EqualFunc_RUnlock"]
    /\ UNCHANGED << cmap, itemsOf, heap, wlock, call, loc, expect, last, trav, fresh >>

\* shard.RUnlock(), the test of equal and the loop condition
EqualFunc_RUnlock(t) ==
    /\ pc[t] = "EqualFunc_RUnlock"
    /\ RUnlock(t, loc[t].sh)
    /\ loc' = [loc EXCEPT ![t] = [@ EXCEPT !.i = @ + 1]]
    /\ pc' = [pc EXCEPT ![t] =
                IF loc[t].ok /\ loc[t].i + 1 < NumShards(call[t].m)
                THEN "EqualFunc_RLock" ELSE "EqualFunc_return"]
    /\ UNCHANGED << cmap, itemsOf, heap, wlock, call, expect, last, trav, fresh >>

\* return: the result is loc[t].ok
EqualFunc_return(t) ==
    /\ pc[t] = "EqualFunc_return"
    /\ Return(t)
    /\ UNCHANGED << cmap, itemsOf, heap, rlocks, wlock, expect, last, trav, fresh >>

EqualFuncStep(t) ==
    \/ EqualFunc_RLock(t)
    \/ EqualFunc_RLockOther(t)
    \/ EqualFunc_compare(t)
    \/ EqualFunc_RUnlockOther(t)
    \/ EqualFunc_RUnlock(t)
    \/ EqualFunc_return(t)

(***************************************************************************)
(* Goroutines calling Get, Set and Delete concurrently on one map.         *)
(***************************************************************************)
Threads == 1 .. NumThreads

\* goroutines that have made no call yet; hist: whether their traversals
\* keep what the map held when they were called
InitHist(procs, hist) ==
    /\ pc = [t \in procs |-> "idle"]
    /\ call = [t \in procs |-> NoCall]
    /\ loc = [t \in procs |-> NoLoc]
    /\ expect = [t \in procs |-> Unknown]
    /\ trav = [t \in procs |-> [NoTrav EXCEPT !.hist = hist]]
    /\ fresh = {}
    /\ last = [x \in {} |-> NoLast]

InitProcs(procs) == InitHist(procs, TRUE)

\* slot 1 holds NewConcurrentHashMap(n), slot 2 holds nothing
InitMap(n) ==
    /\ cmap = [m \in MapIds |-> IF m = 1 THEN NewInstance(1, n) ELSE Nil]
    /\ itemsOf = [a \in ShardAddrs(1, n) |-> a]
    /\ heap = [a \in ShardAddrs(1, n) |-> EmptyMap]
    /\ rlocks = [a \in ShardAddrs(1, n) |-> EmptyBag]
    /\ wlock = [a \in ShardAddrs(1, n) |-> NoProc]

Init ==
    /\ \E n \in 1 .. MaxShards : InitMap(n)
    /\ InitProcs(Threads)

Next ==
    \E t \in Threads :
        \/ \E k \in Keys : Get_call(t, 1, k)
        \/ \E k \in Keys, v \in Vals : Set_call(t, 1, k, v)
        \/ \E k \in Keys : Delete_call(t, 1, k)
        \/ KeyStep(t)

Spec == Init /\ [][Next]_vars


(***************************************************************************)
(* Properties of Get, Set and Delete under Spec.                           *)
(***************************************************************************)
\* the goroutines at the return statement of Get, where val and ok are fixed
GetReturning == { t \in Proc : pc[t] = "Get_RUnlock" }

\* C1: once Set(k, v) has returned and no other Set or Delete of k runs
\* between the call of that Set and the return of a later Get(k), the Get
\* returns (v, true).
C1_GetAfterSet ==
    \A t \in GetReturning :
        expect[t].st = "val" => loc[t].ok /\ loc[t].val = expect[t].v

C1_Witness ==
    \E t \in GetReturning :
        /\ expect[t].st = "val"
        /\ loc[t].ok
        /\ \E u \in Proc \ {t} : Running(u) /\ call[u].op = "Set"

\* the keys present in the instance of slot m
KeysOf(m) == { e[1] : e \in Contents(m) }

\* C2, for a Get: after Delete(k) has returned and no Set of k runs before
\* the Get returns, Get(k) reports found = false.
C2_GetAfterDelete ==
    \A t \in GetReturning : expect[t].st = "absent" => ~loc[t].ok

\* C2, for a Delete of a key that is in no shard (a second Delete, or a key
\* never set): the delete statement leaves the whole map as it was.
C2_DeleteAbsentStep ==
    \A t \in Proc :
        (Delete_write(t) /\ call[t].key \notin KeysOf(call[t].m))
            => (heap' = heap /\ Contents(call[t].m)' = Contents(call[t].m))

\* C2: Get after Delete finds nothing, a Delete of an absent key changes
\* nothing, and no Delete ends in a panic.
C2_Delete ==
    /\ [](C2_GetAfterDelete /\ \A t \in Proc : pc[t] # "panic")
    /\ [][C2_DeleteAbsentStep]_vars

\* a second Delete(k) has executed its delete statement after a first one returned
C2_Witness ==
    \E t \in Proc :
        /\ pc[t] = "Delete_Unlock"
        /\ LastOf(call[t].m, call[t].key).solo
        /\ expect[t].st = "absent"
        /\ Contents(call[t].m) # {}

\* the keys whose last two writes were a Set over a settled Set
Overwritten(m) ==
    { k \in Keys : LastOf(m, k).v.st = "val" /\ LastOf(m, k).over }

\* the goroutines about to return from a solo Set that found its key settled
\* with a value
Overwriting ==
    { t \in Proc : pc[t] = "Set_Unlock" /\ expect[t].st = "val"
                     /\ LastOf(call[t].m, call[t].key).solo }

\* C3: Set(k, v1) followed by Set(k, v2) makes Get(k) return v2, and k has
\* exactly one entry in the map, in one shard.
C3_LastWriteWins ==
    /\ \A t \in GetReturning :
          (expect[t].st = "val" /\ call[t].key \in Overwritten(call[t].m))
              => (loc[t].ok /\ loc[t].val = LastOf(call[t].m, call[t].key).v.v)
    /\ \A m \in MapIds : \A k \in Overwritten(m) :
          /\ Cardinality(ShardsHolding(m, k)) = 1
          /\ <<k, LastOf(m, k).v.v>> \in Contents(m)
    /\ \A t \in Overwriting :
          /\ Cardinality(ShardsHolding(call[t].m, call[t].key)) = 1
          /\ Cardinality(Contents(call[t].m)) = Cardinality(KeysOf(call[t].m))

\* a Get is returning the value of a Set that was made over a settled Set
C3_Witness ==
    \E t \in GetReturning :
        /\ expect[t].st = "val"
        /\ call[t].key \in Overwritten(call[t].m)
        /\ loc[t].ok
        /\ loc[t].val = expect[t].v


(***************************************************************************)
(* Construction followed by single-key operations.  One goroutine calls    *)
(* NewConcurrentHashMap with any count from -1 to MaxNewCount and then     *)
(* Get, Set and Delete on what the constructor returned.                   *)
(***************************************************************************)
NewCounts == (0 - 1) .. MaxNewCount

InitNew ==
    /\ cmap = [m \in MapIds |-> Nil]
    /\ itemsOf = [a \in {} |-> a]
    /\ heap = [a \in {} |-> EmptyMap]
    /\ rlocks = [a \in {} |-> EmptyBag]
    /\ wlock = [a \in {} |-> NoProc]
    /\ InitProcs({1})

NextNew ==
    \/ \E n \in NewCounts : New_call(1, 1, n)
    \/ \E k \in Keys : Get_call(1, 1, k)
    \/ \E k \in Keys, v \in Vals : Set_call(1, 1, k, v)
    \/ \E k \in Keys : Delete_call(1, 1, k)
    \/ KeyStep(1)

SpecNew == InitNew /\ [][NextNew]_vars

\* the goroutines that have routed their key and are inside Get, Set or Delete
Routed == { t \in Proc : Running(t) /\ call[t].op \in {"Get", "Set", "Delete"} }

\* C9: construction with shardCount <= 0 fails at construction time: no
\* instance without shards is ever returned, and the only panic there is
\* is the constructor's.
C9_FailFast ==
    /\ \A m \in MapIds : cmap[m].live => NumShards(m) > 0
    /\ \A t \in Proc : pc[t] = "panic" => call[t].op = "New"

\* C10: the shard a key is routed to is its 32-bit hash modulo the shard
\* count, for every shard count the constructor accepted.
C10_ModuloRouting ==
    \A t \in Routed :
        loc[t].sh = << call[t].m, Mod32(hashOf(call[t].key), NumShards(call[t].m)) >>


(***************************************************************************)
(* One goroutine, so no concurrent writer: it calls every operation in any *)
(* order, on the map built first and on the clones it makes of it.         *)
(***************************************************************************)
Stops == 0 .. (MaxKey + 1)

InitSeq ==
    /\ \E n \in 1 .. MaxShards : InitMap(n)
    /\ InitProcs({1})

NextSeq ==
    \/ \E m \in MapIds, k \in Keys : Get_call(1, m, k)
    \/ \E m \in MapIds, k \in Keys, v \in Vals : Set_call(1, m, k, v)
    \/ \E m \in MapIds, k \in Keys : Delete_call(1, m, k)
    \/ KeyStep(1)
    \/ \E m \in MapIds, stop \in Stops : Range_call(1, m, stop)
    \/ RangeStep(1)
    \/ \E m \in MapIds : Clone_call(1, m)
    \/ CloneStep(1)
    \/ \E m \in MapIds, other \in MapIds : EqualFunc_call(1, m, other, "==")
    \/ EqualFuncStep(1)

SpecSeq == InitSeq /\ [][NextSeq]_vars


(***************************************************************************)
(* Properties of Range, Clone and EqualFunc under SpecSeq.                 *)
(***************************************************************************)
\* the elements of a sequence
Elems(sq) == { sq[j] : j \in 1 .. Len(sq) }

\* the shard indices 0 .. i in increasing order
UpTo(i) == [j \in 1 .. i + 1 |-> j - 1]

\* C4, visitor always true: when Range returns, the visitor was called once
\* for each entry the map held, and for nothing else.
C4_VisitsAll ==
    \A t \in Proc :
        (pc[t] = "Range_return" /\ ~trav[t].stopped)
            => /\ Len(trav[t].seen) = Cardinality(trav[t].before)
               /\ Elems(trav[t].seen) = trav[t].before
               /\ Cardinality({ e[1] : e \in trav[t].before }) = Len(trav[t].seen)

\* C4, visitor returned false: Range is on its way out, the visitor has been
\* called exactly as often as it took to make it return false, and the
\* shards locked are those up to the one being visited, none after it.
C4_StopsAtOnce ==
    \A t \in Proc :
        trav[t].stopped
            => /\ pc[t] \in {"Range_stopUnlock", "Range_return"}
               /\ Len(trav[t].seen) = call[t].stop
               /\ trav[t].locked = UpTo(loc[t].i)

\* C4: with no concurrent writer, Range calls the visitor exactly once per
\* live key when the visitor always returns true, and stops at once, without
\* visiting or locking any later shard, when the visitor returns false.
C4_Range == C4_VisitsAll /\ C4_StopsAtOnce

\* Range returns after the visitor returned false, with entries and a shard
\* left unvisited
C4_Witness ==
    \E t \in Proc :
        /\ pc[t] = "Range_return"
        /\ trav[t].stopped
        /\ Len(trav[t].seen) < Cardinality(trav[t].before)
        /\ loc[t].i + 1 < NumShards(call[t].m)
        /\ ItemsAt(call[t].m, loc[t].i + 1) # EmptyMap

\* Range returns after visiting entries in more than one shard
C4_WitnessAll ==
    \E t \in Proc :
        /\ pc[t] = "Range_return"
        /\ ~trav[t].stopped
        /\ Len(trav[t].seen) > 1
        /\ \A i \in 0 .. NumShards(call[t].m) - 1 : ItemsAt(call[t].m, i) # EmptyMap

\* C5, at the return of Clone: the clone collects to what the source collects to.
C5_CloneEqual ==
    \A t \in Proc :
        pc[t] = "Clone_return" => Collect(call[t].other) = Collect(call[t].m)

\* C5, afterwards: a Set or Delete on one instance changes nothing in the other.
C5_IndependentStep ==
    \A t \in Proc :
        (Set_write(t) \/ Delete_write(t))
            => \A m \in MapIds \ {call[t].m} :
                  /\ Collect(m)' = Collect(m)
                  /\ Contents(m)' = Contents(m)

\* C5: a Clone taken with no concurrent writer collects to the same mapping
\* as its source, and later writes to either leave the other unchanged.
C5_Clone == []C5_CloneEqual /\ [][C5_IndependentStep]_vars

\* a write has been made to one of a source and its populated clone, and the
\* two now differ
C5_Witness ==
    \E t \in Proc :
        /\ pc[t] \in {"Set_Unlock", "Delete_Unlock"}
        /\ \A m \in MapIds : cmap[m].live
        /\ Collect(OtherSlot(call[t].m)) # EmptyMap
        /\ Collect(1) # Collect(2)

\* C6: m.EqualFunc(m.Clone(), ==) returns true when neither instance was
\* written between the Clone and the comparison.
C6_EqualToClone ==
    \A t \in Proc :
        (pc[t] = "EqualFunc_return" /\ call[t].eq = "=="
         /\ <<call[t].m, call[t].other>> \in fresh)
            => loc[t].ok

\* EqualFunc returns true for a fresh clone of a map with entries in every shard
C6_Witness ==
    \E t \in Proc :
        /\ pc[t] = "EqualFunc_return"
        /\ <<call[t].m, call[t].other>> \in fresh
        /\ loc[t].ok
        /\ NumShards(call[t].m) > 1
        /\ \A i \in 0 .. NumShards(call[t].m) - 1 : ItemsAt(call[t].m, i) # EmptyMap


(***************************************************************************)
(* TestConcurrentOperations.  The test starts one goroutine per Set        *)
(* (key i, value i*i, for i < numOps), one per Get (key i) and one per     *)
(* Delete (key 2*i, for i < numOps/2), waits for all of them and then      *)
(* counts the entries with Range.  The run without the Delete goroutines   *)
(* is the test's first part alone.                                         *)
(***************************************************************************)
Setters == 1 .. NumOps
Getters == (NumOps + 1) .. (2 * NumOps)
Deleters == (2 * NumOps + 1) .. (2 * NumOps + NumOps \div 2)
Workers == Setters \cup Getters \cup Deleters
MainProc == 2 * NumOps + NumOps \div 2 + 1

SetterKey(t) == t - 1
GetterKey(t) == t - NumOps - 1
DeleterKey(t) == 2 * (t - 2 * NumOps - 1)

TestKeys == 0 .. NumOps - 1
OddKeys == { k \in TestKeys : k % 2 = 1 }

InitTest ==
    /\ \E n \in 1 .. MaxShards : InitMap(n)
    /\ \E withDelete \in BOOLEAN :
          pc = [t \in Workers \cup {MainProc} |->
                  IF t \in Deleters /\ ~withDelete THEN "off" ELSE "go"]
    /\ call = [t \in Workers \cup {MainProc} |-> NoCall]
    /\ loc = [t \in Workers \cup {MainProc} |-> NoLoc]
    /\ expect = [t \in Workers \cup {MainProc} |-> Unknown]
    /\ trav = [t \in Workers \cup {MainProc} |-> NoTrav]
    /\ last = [x \in {} |-> NoLast]
    /\ fresh = {}

\* wg.Wait() has returned: every goroutine the test started has finished
AllDone == \A w \in Workers : pc[w] \in {"idle", "off"}

\* the steps of the test's Range: its visitor counts and always returns true
CountStep(t) ==
    \/ Range_RLock(t)
    \/ Range_iter(t)
    \/ Range_iterEnd(t)
    \/ Range_RUnlock(t)
    \/ Range_return(t)

NextTest ==
    \/ \E t \in Setters : pc[t] = "go" /\ Set_call(t, 1, SetterKey(t), SetterKey(t) * SetterKey(t))
    \/ \E t \in Getters : pc[t] = "go" /\ Get_call(t, 1, GetterKey(t))
    \/ \E t \in Deleters : pc[t] = "go" /\ Delete_call(t, 1, DeleterKey(t))
    \/ \E t \in Workers : KeyStep(t)
    \/ AllDone /\ pc[MainProc] = "go" /\ Range_call(MainProc, 1, 0)
    \/ CountStep(MainProc)

SpecTest == InitTest /\ [][NextTest]_vars

\* the final Range of the test is returning
TestCounted == pc[MainProc] = "Range_return"

\* the Delete goroutines were started
WithDelete == \A d \in Deleters : pc[d] # "off"

\* C7: N distinct keys Set by N goroutines that have all finished: Range
\* delivers exactly N entries, each key once with the value that was set.
C7_AllSetsCounted ==
    (TestCounted /\ ~WithDelete)
        => /\ Len(trav[MainProc].seen) = NumOps
           /\ Elems(trav[MainProc].seen) = { <<k, k * k>> : k \in TestKeys }

\* the goroutines have all finished and the final Range has delivered N entries
C7_Witness ==
    /\ TestCounted
    /\ ~WithDelete
    /\ Len(trav[MainProc].seen) = NumOps
    /\ NumOps > 1

\* C8: with the Set and the Delete of a key unordered, the map ends with
\* exactly the odd keys and no even key.  This is what the test asserts
\* after wg.Wait(): no even key is delivered and numOps - numOps/2 entries
\* are counted.
C8_OnlyOddKeys ==
    (TestCounted /\ WithDelete)
        => Elems(trav[MainProc].seen) = { <<k, k * k>> : k \in OddKeys }

\* the test ends with an even key still in the map: its Delete goroutine
\* took the shard's lock before its Set goroutine did
C8_EvenKeyLeft ==
    /\ TestCounted
    /\ WithDelete
    /\ \E k \in TestKeys \ OddKeys : <<k, k * k>> \in Elems(trav[MainProc].seen)
    /\ { <<k, k * k>> : k \in OddKeys } \subseteq Elems(trav[MainProc].seen)


(***************************************************************************)
(* A map with float64 keys, as in TestConcurrentHashMapWithFloatKeys: one  *)
(* goroutine calls Get, Set and Delete with the keys +0, -0 and 1.         *)
(***************************************************************************)
FloatKeys == { PosZero, NegZero, F64(0, 1) }

InitFloat ==
    /\ \E n \in 1 .. MaxShards : InitMap(n)
    /\ InitProcs({1})

NextFloat ==
    \/ \E k \in FloatKeys : Get_call(1, 1, k)
    \/ \E k \in FloatKeys, v \in Vals : Set_call(1, 1, k, v)
    \/ \E k \in FloatKeys : Delete_call(1, 1, k)
    \/ KeyStep(1)

SpecFloat == InitFloat /\ [][NextFloat]_vars

\* C11: every key, up to the equality of the key type, is held by at most
\* one shard, and that shard is the one getShard selects for it; a Get finds
\* the key exactly when the map holds an entry for an equal key.
C11_EqualKeysOneShard ==
    /\ \A m \in MapIds : cmap[m].live =>
          \A k \in FloatKeys :
              /\ Cardinality(ShardsHolding(m, k)) <= 1
              /\ \A i \in ShardsHolding(m, k) :
                    getShardOk(m, k) /\ getShard(m, k) = ShardAt(m, i)
    /\ \A t \in GetReturning :
          loc[t].ok <=> ShardsHolding(call[t].m, call[t].key) # {}


(***************************************************************************)
(* Two maps built independently, with any two shard counts, written and    *)
(* compared by one goroutine.                                              *)
(***************************************************************************)
InitMaps(n1, n2) ==
    /\ cmap = [m \in MapIds |-> NewInstance(m, IF m = 1 THEN n1 ELSE n2)]
    /\ itemsOf = [a \in ShardAddrs(1, n1) \cup ShardAddrs(2, n2) |-> a]
    /\ heap = [a \in ShardAddrs(1, n1) \cup ShardAddrs(2, n2) |-> EmptyMap]
    /\ rlocks = [a \in ShardAddrs(1, n1) \cup ShardAddrs(2, n2) |-> EmptyBag]
    /\ wlock = [a \in ShardAddrs(1, n1) \cup ShardAddrs(2, n2) |-> NoProc]

InitPair ==
    /\ \E n1 \in 1 .. MaxShards, n2 \in 1 .. MaxShards : InitMaps(n1, n2)
    /\ InitProcs({1})

NextPair ==
    \/ \E m \in MapIds, k \in Keys, v \in Vals : Set_call(1, m, k, v)
    \/ \E m \in MapIds, k \in Keys : Delete_call(1, m, k)
    \/ Write_Lock(1) \/ Write_LockWait(1) \/ Set_write(1) \/ Delete_write(1) \/ Write_Unlock(1)
    \/ \E m \in MapIds, other \in MapIds : EqualFunc_call(1, m, other, "==")
    \/ EqualFuncStep(1)

SpecPair == InitPair /\ [][NextPair]_vars

\* the two instances of an EqualFunc call have different shard counts
Mismatched(t) == NumShards(call[t].m) # NumShards(call[t].other)

\* C12, the call: between maps of different shard counts the first step of
\* EqualFunc goes straight to the return with the result false, and takes or
\* requests no lock.
C12_MismatchStep ==
    \A t \in Proc : \A m \in MapIds, other \in MapIds :
        (EqualFunc_call(t, m, other, "==") /\ NumShards(m) # NumShards(other))
            => /\ pc'[t] = "EqualFunc_return"
               /\ ~loc'[t].ok
               /\ rlocks' = rlocks /\ wlock' = wlock

\* C12, in every state: an EqualFunc between maps of different shard counts
\* is nowhere but at its return, its result is false and it holds no lock.
C12_MismatchState ==
    \A t \in Proc :
        (call[t].op = "EqualFunc" /\ Mismatched(t))
            => (pc[t] = "EqualFunc_return" /\ ~loc[t].ok /\ Held(t) = {})

\* C12: EqualFunc between maps built with different shard counts returns
\* false at once, whatever the maps hold, and acquires no shard lock.
C12_MismatchedIsFalse == []C12_MismatchState /\ [][C12_MismatchStep]_vars

\* EqualFunc is returning false for two maps of different shard counts that
\* hold exactly the same entries
C12_Witness ==
    \E t \in Proc :
        /\ pc[t] = "EqualFunc_return"
        /\ Mismatched(t)
        /\ ~loc[t].ok
        /\ Collect(call[t].m) = Collect(call[t].other)
        /\ Collect(call[t].m) # EmptyMap


(***************************************************************************)
(* Insert with a concurrent reader.  Goroutine 1 inserts what a producer   *)
(* of up to MaxPairs pairs yields; goroutine 2 calls Get meanwhile.        *)
(***************************************************************************)
MaxPairs == 2

RECURSIVE PairSeqs(_)
PairSeqs(n) ==
    IF n = 0 THEN { << >> }
    ELSE PairSeqs(n - 1)
            \cup { Append(sq, <<k, v>>) : sq \in { x \in PairSeqs(n - 1) : Len(x) = n - 1 },
                                           k \in Keys, v \in Vals }

Inserter == 1
Reader == 2

InitIns ==
    /\ \E n \in 1 .. MaxShards : InitMap(n)
    /\ InitProcs({Inserter, Reader})

NextIns ==
    \/ \E sq \in PairSeqs(MaxPairs) : Insert_call(Inserter, 1, sq)
    \/ InsertStep(Inserter)
    \/ Write_Lock(Inserter) \/ Write_LockWait(Inserter) \/ Set_write(Inserter)
    \/ Write_Unlock(Inserter)
    \/ \E k \in Keys : Get_call(Reader, 1, k)
    \/ Get_RLock(Reader) \/ Get_read(Reader) \/ Get_RUnlock(Reader)

SpecIns == InitIns /\ [][NextIns]_vars

\* the entries after the pairs of sq were Set in order on the entries es
RECURSIVE ApplyPairs(_, _)
ApplyPairs(es, sq) ==
    IF sq = << >> THEN es
    ELSE ApplyPairs({ e \in es : ~KeyEq(e[1], Head(sq)[1]) } \cup { Head(sq) }, Tail(sq))

\* the goroutines inside Insert, between two pairs or inside the Set of a pair
Inserting == { t \in Proc : call[t].op = "Insert" \/ call[t].outer.pc = "Insert_next" }

\* the Insert call of a goroutine inside Insert
InsertCall(t) == IF call[t].op = "Insert" THEN call[t] ELSE call[t].outer.call

\* the number of pairs whose Set has stored its entry
Applied(t) ==
    IF call[t].op = "Insert" THEN loc[t].i
    ELSE IF pc[t] = "Set_Unlock" THEN call[t].outer.loc.i
    ELSE call[t].outer.loc.i - 1

\* C13: at every instant of an Insert the map holds what it held at the
\* call with a prefix of the produced pairs Set on it in the order produced;
\* the Set in progress is the Set of the next pair; so when Insert returns
\* the last value produced for a key is the one that remains.
C13_PrefixApplied ==
    \A t \in Inserting :
        /\ Applied(t) \in 0 .. Len(InsertCall(t).seq)
        /\ Contents(InsertCall(t).m)
              = ApplyPairs(trav[t].before, SubSeq(InsertCall(t).seq, 1, Applied(t)))
        /\ call[t].op = "Set"
              => << call[t].key, call[t].val >> = InsertCall(t).seq[call[t].outer.loc.i]

\* a Get is returning the first pair of an Insert of two keys while the
\* second pair is not in the map yet
C13_Witness ==
    \E t \in Inserting : \E r \in GetReturning :
        /\ Len(InsertCall(t).seq) = 2
        /\ Applied(t) = 1
        /\ InsertCall(t).seq[1][1] # InsertCall(t).seq[2][1]
        /\ call[r].key = InsertCall(t).seq[1][1]
        /\ loc[r].ok /\ loc[r].val = InsertCall(t).seq[1][2]
        /\ InsertCall(t).seq[2][1] \notin KeysOf(InsertCall(t).m)

\* an Insert that produced one key twice is returning, and the key has the
\* value produced last
C13_WitnessLast ==
    \E t \in Inserting :
        /\ pc[t] = "Insert_next"
        /\ Applied(t) = 2
        /\ call[t].seq[1][1] = call[t].seq[2][1]
        /\ call[t].seq[1][2] # call[t].seq[2][2]
        /\ call[t].seq[2] \in Contents(call[t].m)


(***************************************************************************)
(* Traversals against a concurrent caller of the single-key operations.    *)
(* Goroutine 1 calls Range, All, Keys, Values, Collect, Clone and          *)
(* EqualFunc; goroutine 2 calls Get, Set and Delete on the same map.       *)
(***************************************************************************)
Traverser == 1
Mutator == 2

InitTrav ==
    /\ \E n \in 1 .. MaxShards : InitMap(n)
    /\ InitHist({Traverser, Mutator}, FALSE)

\* the map has not been cloned yet: the traversals are made before the clones
Uncloned == ~cmap[2].live

NextTrav ==
    \/ Uncloned /\ \E stop \in Stops : Range_call(Traverser, 1, stop)
    \/ Uncloned /\ \E stop \in Stops : All_call(Traverser, 1, stop)
    \/ Uncloned /\ \E stop \in Stops : Keys_call(Traverser, 1, stop)
    \/ Uncloned /\ \E stop \in Stops : Values_call(Traverser, 1, stop)
    \/ Uncloned /\ Collect_call(Traverser, 1)
    \/ RangeStep(Traverser)
    \/ Clone_call(Traverser, 1)
    \/ CloneStep(Traverser)
    \/ \E other \in MapIds : EqualFunc_call(Traverser, 1, other, "==")
    \/ EqualFuncStep(Traverser)
    \/ \E k \in Keys : Get_call(Mutator, 1, k)
    \/ \E k \in Keys, v \in Vals : Set_call(Mutator, 1, k, v)
    \/ \E k \in Keys : Delete_call(Mutator, 1, k)
    \/ KeyStep(Mutator)

SpecTrav == InitTrav /\ [][NextTrav]_vars

(***************************************************************************)
(* Every public operation under contention.  Goroutine 1 calls the         *)
(* traversals, Clone and EqualFunc; goroutine 2 calls Get and Set and      *)
(* goroutine 3 calls Delete on the same map, so that a writer meets        *)
(* another writer, a Get and a traversal on the lock of one shard.         *)
(***************************************************************************)
Second == 3
Mutators == {Mutator, Second}

InitLock ==
    /\ \E n \in 1 .. MaxShards : InitMap(n)
    /\ InitHist({Traverser} \cup Mutators, FALSE)

NextLock ==
    \/ Uncloned /\ \E stop \in Stops : Range_call(Traverser, 1, stop)
    \/ Uncloned /\ \E stop \in Stops : All_call(Traverser, 1, stop)
    \/ Uncloned /\ \E stop \in Stops : Keys_call(Traverser, 1, stop)
    \/ Uncloned /\ \E stop \in Stops : Values_call(Traverser, 1, stop)
    \/ Uncloned /\ Collect_call(Traverser, 1)
    \/ RangeStep(Traverser)
    \/ Clone_call(Traverser, 1)
    \/ CloneStep(Traverser)
    \/ \E other \in MapIds : EqualFunc_call(Traverser, 1, other, "==")
    \/ EqualFuncStep(Traverser)
    \/ \E k \in Keys : Get_call(Mutator, 1, k)
    \/ \E k \in Keys : Set_call(Mutator, 1, k, 1)
    \/ \E k \in Keys : Delete_call(Second, 1, k)
    \/ \E t \in Mutators : KeyStep(t)

SpecLock == InitLock /\ [][NextLock]_vars

\* the goroutines holding the exclusive lock of shard sh: past Lock, before Unlock
ExclusiveHolders(sh) ==
    { t \in Proc : pc[t] \in {"Set_write", "Delete_write", "Set_Unlock", "Delete_Unlock"}
                     /\ loc[t].sh = sh }

\* the goroutines holding the shared lock of shard sh
SharedHolders(sh) == { t \in Proc : BagIn(t, rlocks[sh]) }

\* the shards whose entry mapping goroutine t is about to read
ReadsAt(t) ==
    CASE pc[t] \in {"Get_read", "Range_iter", "Range_visit", "Clone_copy"} -> { loc[t].sh }
      [] pc[t] = "EqualFunc_compare" -> { loc[t].sh, loc[t].osh }
      [] OTHER -> {}

\* the shards whose entry mapping goroutine t is about to write
WritesAt(t) == IF pc[t] \in {"Set_write", "Delete_write"} THEN { loc[t].sh } ELSE {}

\* the shards of the instance a Clone is still building: nobody else has it
Unpublished ==
    { sh \in DOMAIN heap : \E t \in Proc : call[t].op = "Clone" /\ sh[1] = call[t].other }

\* C14, in every state: a goroutine about to write a shard's map holds the
\* shard's exclusive lock, a goroutine about to read it holds its shared
\* lock, and a goroutine past Lock and before Unlock has the writer side of
\* the shard's lock and is the only holder of it, shared or exclusive.
C14_DisciplineState ==
    /\ \A t \in Proc :
          /\ \A sh \in WritesAt(t) : t \in ExclusiveHolders(sh) /\ LockGranted(t, sh)
          /\ \A sh \in ReadsAt(t) : t \in SharedHolders(sh)
    /\ \A sh \in DOMAIN heap :
          ExclusiveHolders(sh) # {}
              => /\ Cardinality(ExclusiveHolders(sh)) = 1
                 /\ SharedHolders(sh) = {}
                 /\ \A t \in ExclusiveHolders(sh) : LockGranted(t, sh)

\* C14, in every step: the map of a shard changes only in a step of a
\* goroutine holding the shard's exclusive lock, the shards of an instance
\* still being built by Clone excepted.
C14_DisciplineStep ==
    \A sh \in DOMAIN heap \ (Unpublished \cup Unpublished') :
        (sh \in DOMAIN heap' /\ (heap'[itemsOf'[sh]] # heap[itemsOf[sh]]))
            => \E t \in ExclusiveHolders(sh) : pc'[t] # pc[t]

\* C14: lock discipline in every state and step of every public operation.
C14_LockDiscipline == []C14_DisciplineState /\ [][C14_DisciplineStep]_vars

\* a Delete holds a shard exclusively while a Set of another goroutine waits
\* in Lock for the same shard and a traversal waits in RLock for it, holding
\* nothing
C14_Witness ==
    /\ pc[Second] = "Delete_write"
    /\ pc[Mutator] = "Set_Lock"
    /\ loc[Mutator].sh = loc[Second].sh
    /\ pc[Traverser] \in {"Range_RLock", "Clone_RLock", "EqualFunc_RLock"}
    /\ ShardAt(call[Traverser].m, loc[Traverser].i) = loc[Second].sh
    /\ loc[Traverser].i > 0
    /\ Held(Traverser) = {}

\* a Set holds a shard exclusively while a Delete of another goroutine waits
\* in Lock for the same shard
C14_WitnessWriters ==
    /\ pc[Mutator] = "Set_write"
    /\ pc[Second] = "Delete_Lock"
    /\ loc[Mutator].sh = loc[Second].sh

\* a Get waits in RLock for the shard a Delete holds exclusively
C14_WitnessGetWaits ==
    /\ pc[Second] = "Delete_write"
    /\ pc[Mutator] = "Get_RLock"
    /\ loc[Mutator].sh = loc[Second].sh

\* a Get and a traversal hold the shared lock of one shard together while a
\* Delete that has asked for the shard waits for both to leave
C14_WitnessShared ==
    /\ pc[Second] = "Delete_LockWait"
    /\ pc[Mutator] = "Get_read"
    /\ loc[Mutator].sh = loc[Second].sh
    /\ pc[Traverser] \in {"Range_iter", "Clone_copy", "EqualFunc_compare"}
    /\ SharedHolders(loc[Second].sh) = {Mutator, Traverser}


(***************************************************************************)
(* Callbacks that misbehave.  One goroutine fills the map and then         *)
(* traverses it with a visitor that panics or that writes to the map, or   *)
(* compares it with an eq that panics; it recovers from the panic and      *)
(* goes on calling.  A callback is made to panic only while the goroutine  *)
(* holds no lock, which bounds the locks it can be left holding.           *)
(***************************************************************************)
TraverseOps == { "Range", "All", "Keys", "Values" }
VisitorActs == { "panic", "Set", "Delete" }

InitVisit ==
    /\ \E n \in 1 .. MaxShards : InitMap(n)
    /\ InitProcs({1})

NextVisit ==
    \/ \E k \in Keys, v \in Vals : Set_call(1, 1, k, v)
    \/ \E k \in Keys : Delete_call(1, 1, k)
    \/ Write_Lock(1) \/ Write_LockWait(1) \/ Set_write(1) \/ Delete_write(1) \/ Write_Unlock(1)
    \/ /\ Held(1) = {}
       /\ \E op \in TraverseOps, stop \in Stops \ {0}, act \in VisitorActs, k \in Keys :
             Traverse_call(1, op, 1, stop, act, k, 1)
    \/ \E op \in TraverseOps, stop \in Stops : Traverse_call(1, op, 1, stop, "false", 0, 0)
    \/ RangeStep(1)
    \/ VisitStep(1)
    \/ Held(1) = {} /\ \E eq \in { "==", "panic" } : EqualFunc_call(1, 1, 1, eq)
    \/ EqualFuncStep(1)
    \/ EqualFunc_eqPanics(1)
    \/ EqualFunc_unwind(1)

SpecVisit == InitVisit /\ [][NextVisit]_vars

\* C15: a goroutine that is not inside an operation (it has not called, or
\* the operation has exited, by a return or by a panic of the callback)
\* holds no shard lock.
C15_LocksReleased ==
    \A t \in Proc : ~Running(t) => Held(t) = {}

\* C15 for the exits that are returns: every statement that leaves an
\* operation other than by a panic of the callback leaves it with no lock held.
C15_ReleasedOnReturn ==
    \A t \in Proc :
        pc[t] \in {"Range_return", "EqualFunc_return", "Clone_return", "Insert_next"}
            => Held(t) = {}


(***************************************************************************)
(* Two maps A (slot 1) and B (slot 2) of equal shard counts.  One          *)
(* goroutine calls A.EqualFunc(B), one calls B.EqualFunc(A), one calls Set *)
(* on A and one calls Delete on B.                                         *)
(***************************************************************************)
CompareAB == 1
CompareBA == 2
WriterA == 3
WriterB == 4
CrossProcs == { CompareAB, CompareBA, WriterA, WriterB }

InitCross ==
    /\ \E n \in 1 .. MaxShards : InitMaps(n, n)
    /\ InitHist(CrossProcs, FALSE)

NextCross ==
    \/ EqualFunc_call(CompareAB, 1, 2, "==")
    \/ EqualFunc_call(CompareBA, 2, 1, "==")
    \/ EqualFuncStep(CompareAB)
    \/ EqualFuncStep(CompareBA)
    \/ \E k \in Keys : Set_call(WriterA, 1, k, 1)
    \/ \E k \in Keys : Delete_call(WriterB, 2, k)
    \/ \E w \in { WriterA, WriterB } :
          Write_Lock(w) \/ Write_LockWait(w) \/ Set_write(w) \/ Delete_write(w) \/ Write_Unlock(w)

SpecCross == InitCross /\ [][NextCross]_vars

\* the shard whose lock the statement goroutine t is at asks for
Awaited(t) ==
    CASE pc[t] \in {"Get_RLock", "Set_Lock", "Delete_Lock", "Set_LockWait", "Delete_LockWait"}
            -> { loc[t].sh }
      [] pc[t] \in {"Range_RLock", "Clone_RLock", "EqualFunc_RLock"}
            -> { ShardAt(call[t].m, loc[t].i) }
      [] pc[t] = "EqualFunc_RLockOther" -> { loc[t].osh }
      [] OTHER -> {}

\* the goroutines that must release a lock before goroutine t can go on: the
\* writer that holds or has requested the shard, for an RLock or a Lock; the
\* readers inside, for a Lock that has been requested
WaitsFor(t) ==
    IF pc[t] \in {"Set_LockWait", "Delete_LockWait"}
    THEN UNION { SharedHolders(sh) : sh \in Awaited(t) }
    ELSE { wlock[sh] : sh \in Awaited(t) } \ { NoProc }

\* a set of goroutines each of which waits for a member of the set
Deadlocked(S) == S # {} /\ \A t \in S : WaitsFor(t) \cap S # {}

\* C16: no set of goroutines running A.EqualFunc(B), B.EqualFunc(A), Set and
\* Delete is ever deadlocked, so both comparisons can always go on to return.
C16_NoDeadlock ==
    \A S \in SUBSET Proc : ~Deadlocked(S)


(***************************************************************************)
(* Single-key operations under fair scheduling.  The Go scheduler runs     *)
(* every goroutine that can run, and sync.RWMutex hands a lock that is     *)
(* released again and again to a goroutine that keeps waiting for it: the  *)
(* writer side is a sync.Mutex, which goes into starvation mode, and       *)
(* Unlock admits the readers that were waiting before the next writer.     *)
(***************************************************************************)
Fairness ==
    \A t \in Threads :
        /\ WF_vars(KeyStep(t))
        /\ SF_vars(Get_RLock(t))
        /\ SF_vars(Write_Lock(t))

\* the calls of Spec, every Set storing the same value: which value is
\* stored has no part in who waits for whom
NextLive ==
    \E t \in Threads :
        \/ \E k \in Keys : Get_call(t, 1, k)
        \/ \E k \in Keys : Set_call(t, 1, k, 1)
        \/ \E k \in Keys : Delete_call(t, 1, k)
        \/ KeyStep(t)

SpecLive == Init /\ [][NextLive]_vars /\ Fairness

\* the goroutines inside Get, Set or Delete
InKeyOp == { t \in Proc : Running(t) /\ call[t].op \in {"Get", "Set", "Delete"} }

\* C17, in every state: a goroutine inside Get, Set or Delete works on the
\* one shard its key routes to: it holds no lock but that shard's and asks
\* for no other; and no set of goroutines is deadlocked.
C17_OneShard ==
    /\ \A t \in InKeyOp :
          /\ loc[t].sh = getShard(call[t].m, call[t].key)
          /\ Held(t) \subseteq { loc[t].sh }
          /\ Awaited(t) \subseteq { loc[t].sh }
    /\ \A S \in SUBSET Proc : ~Deadlocked(S)

\* C17: single-key operations touch one shard and hold at most one lock, so
\* they cannot deadlock, and under fair scheduling every call returns.
C17_SingleKeyReturns ==
    /\ []C17_OneShard
    /\ \A t \in Threads : Running(t) ~> ~Running(t)

\* a Get waits for the shard's lock behind a writer that holds it
C17_Witness ==
    \E t \in InKeyOp, u \in InKeyOp :
        /\ pc[t] = "Get_RLock"
        /\ pc[u] \in {"Set_write", "Delete_write"}
        /\ loc[t].sh = loc[u].sh
        /\ WaitsFor(t) = { u }
        /\ NumShards(call[t].m) > 1


(***************************************************************************)
(* Properties of the traversals under SpecTrav.                            *)
(***************************************************************************)
\* the goroutines inside Range, All, Keys, Values or Collect
Traversing ==
    { t \in Proc : Running(t) /\ call[t].op \in TraverseOps \cup { "Collect" } }

\* the entries of a shard
EntriesOf(sh) == { <<k, heap[itemsOf[sh]][k]>> : k \in DOMAIN heap[itemsOf[sh]] }

\* the entries a traversal has delivered since it locked its current shard
DeliveredHere(t) == Elems(SubSeq(trav[t].seen, trav[t].mark + 1, Len(trav[t].seen)))

\* the goroutines that have a shard locked for visiting
Visiting == { t \in Traversing : pc[t] \in {"Range_iter", "Range_RUnlock", "Range_stopUnlock"} }

\* C18: a traversal locks the shards in increasing index order and holds
\* the shared lock of the shard it is visiting and no other lock, none
\* between two shards; while it visits a shard the shard's entries are the
\* ones it found when it locked the shard, what it delivers are those
\* entries, each once, and when the inner loop is done it has delivered
\* exactly them.  So what was delivered for a shard is its contents at one
\* instant before its release, whatever is written to it afterwards.
C18_PerShardAtomic ==
    \A t \in Traversing :
        /\ trav[t].locked = UpTo(Len(trav[t].locked) - 1)
        /\ t \in Visiting
              => /\ trav[t].locked = UpTo(loc[t].i)
                 /\ loc[t].sh = ShardAt(call[t].m, loc[t].i)
                 /\ Held(t) = { loc[t].sh }
                 /\ t \in SharedHolders(loc[t].sh)
                 /\ EntriesOf(loc[t].sh) = trav[t].snap
                 /\ DeliveredHere(t) \subseteq trav[t].snap
                 /\ Cardinality(DeliveredHere(t)) = Len(trav[t].seen) - trav[t].mark
                 /\ DeliveredHere(t) \cup { e \in trav[t].snap : e[1] \in loc[t].todo } = trav[t].snap
        /\ pc[t] = "Range_RUnlock" => DeliveredHere(t) = trav[t].snap
        /\ t \notin Visiting => Held(t) = {}
        /\ pc[t] = "Range_RLock" => Len(trav[t].locked) = loc[t].i

\* a traversal is visiting its second shard, and the first shard no longer
\* holds what the traversal delivered for it: it was written after its release
C18_Witness ==
    \E t \in Visiting :
        /\ loc[t].i = 1
        /\ trav[t].mark > 0
        /\ Elems(SubSeq(trav[t].seen, 1, trav[t].mark)) # EntriesOf(ShardAt(call[t].m, 0))
        /\ trav[t].snap # {}


(***************************************************************************)
(* Linearizability of the operations on one key, under Spec.  Every call   *)
(* executes one statement on the shard's map between its call and its      *)
(* return: the lookup of Get, the store of Set, the delete of Delete.      *)
(* Taking the calls in the order of these statements gives a total order   *)
(* that respects the real-time order of the calls; lin is the entry of the *)
(* key after the writes so ordered.                                        *)
(***************************************************************************)
\* the entry of key in the sequential history, as a Get would report it
Register(m, key) == LastOf(m, key).lin

\* C19, the lookup of a Get: it finds the entry that the most recent write
\* of the key in the total order left: the value of a Set, nothing after a
\* Delete or when the key was never set.
C19_GetReadsRegister ==
    \A t \in Proc :
        Get_read(t)
            => /\ loc'[t].ok = (Register(call[t].m, call[t].key).st = "val")
               /\ loc'[t].ok => loc'[t].val = Register(call[t].m, call[t].key).v

\* C19, in every state: the map holds for every key exactly the entry of
\* the sequential history, and a Get on its way out, still holding the
\* shard, has that entry as its result.
C19_MapIsRegister ==
    /\ \A k \in Keys :
          /\ Register(1, k).st = "val" => Contents(1) \cap ({k} \X Vals) = { <<k, Register(1, k).v>> }
          /\ Register(1, k).st # "val" => Contents(1) \cap ({k} \X Vals) = {}
    /\ \A t \in GetReturning :
          /\ loc[t].ok = (Register(call[t].m, call[t].key).st = "val")
          /\ loc[t].ok => loc[t].val = Register(call[t].m, call[t].key).v

\* C19: Get, Set and Delete on one key are linearizable.
C19_Linearizable == []C19_MapIsRegister /\ [][C19_GetReadsRegister]_vars

\* a Get returns a value while a Set of another value to the same key, called
\* before the Get returned, waits for the shard
C19_Witness ==
    \E t \in GetReturning : \E u \in WritersOf(call[t].m, call[t].key) :
        /\ loc[t].ok
        /\ call[u].op = "Set"
        /\ call[u].val # loc[t].val
        /\ pc[u] = "Set_LockWait"


(***************************************************************************)
(* Writes made by a visitor, under SpecVisit.                              *)
(***************************************************************************)
\* the goroutines whose visitor is inside a Set or Delete, on the map being
\* traversed, of a key that routes to the shard being visited
Reentrant ==
    { t \in Proc : /\ call[t].op \in {"Set", "Delete"}
                     /\ call[t].outer.pc = "Range_iter"
                     /\ call[t].m = call[t].outer.call.m
                     /\ loc[t].sh = call[t].outer.loc.sh }

\* C20, in every state: such a Set or Delete is waiting for the shard's
\* exclusive lock while its own goroutine holds the shard's shared lock.
C20_BlockedState ==
    \A t \in Reentrant :
        /\ pc[t] \in {"Set_Lock", "Set_LockWait", "Delete_Lock", "Delete_LockWait"}
        /\ t \in SharedHolders(loc[t].sh)
        /\ pc[t] \in {"Set_LockWait", "Delete_LockWait"} => t \in WaitsFor(t)

\* C20, in every step: it stays there, so the visitor never returns and the
\* traversal never completes.
C20_BlockedStep ==
    \A t \in Reentrant : (t \in Reentrant') /\ heap' = heap

\* C20: a visitor that writes to the shard being visited blocks forever.
C20_ReentrantWriteBlocks == []C20_BlockedState /\ [][C20_BlockedStep]_vars

\* the visitor's Set has asked for the exclusive lock of the shard its own
\* traversal holds, and waits for itself
C20_Witness ==
    \E t \in Reentrant :
        /\ pc[t] = "Set_LockWait"
        /\ WaitsFor(t) = { t }
        /\ Deadlocked({ t })
        /\ call[t].outer.call.op = "All"

\* the visitor's Set of a key that routes to another shard has returned and
\* the traversal has gone on
C20_WitnessOtherShard ==
    \E t \in Traversing :
        /\ call[t].act = "Set"
        /\ pc[t] = "Range_return"
        /\ <<call[t].key, call[t].val>> \in Contents(call[t].m)
        /\ Len(trav[t].seen) >= call[t].stop
        /\ call[t].stop > 0

=============================================================================
